---------------------------- MODULE Spec2Model ----------------------------
(***************************************************************************)
(* A model of the prophet dashboard's client code: the centralized         *)
(* performance calculations and the weekly aggregation of updateSummary    *)
(* (src/js/performance.js), and the asynchronous page flow of              *)
(* initializeWeekNavigation, changeWeek, checkWeek, loadRecommendations    *)
(* and loadPerformanceMetrics (src/js/navigation.js, performance.js).      *)
(*                                                                         *)
(* JavaScript values are modelled by what the code can observe of them:    *)
(* a number is an exact rational n/d, and undefined, null, NaN and the     *)
(* infinities are values of their own, so that `x || 0`, `x === 0`,        *)
(* `x !== null` and arithmetic on a missing field behave as in the code.   *)
(***************************************************************************)
EXTENDS Integers, Sequences, FiniteSets, TLC

----------------------------------------------------------------------------
(* JavaScript values *)

Abs(x) == IF x < 0 THEN -x ELSE x

RECURSIVE GCD(_, _)
GCD(a, b) == IF b = 0 THEN a ELSE GCD(b, a % b)

Num(n) == [t |-> "number", n |-> n, d |-> 1]

\* the number n/d (d # 0), in lowest terms with a positive denominator
Rat(n, d) ==
    IF d = 1 THEN Num(n)
    ELSE LET g == GCD(Abs(n), Abs(d))
             s == IF d < 0 THEN -1 ELSE 1
         IN  [t |-> "number", n |-> (s * n) \div g, d |-> (s * d) \div g]

NaN == [t |-> "NaN", n |-> 0, d |-> 1]
Undefined == [t |-> "undefined", n |-> 0, d |-> 1]
Null == [t |-> "null", n |-> 0, d |-> 1]
Infinity(sign) == [t |-> "Infinity", n |-> sign, d |-> 1]

Sign(n) == IF n < 0 THEN -1 ELSE IF n > 0 THEN 1 ELSE 0

\* ToNumber: undefined is NaN, null is 0
ToNumber(x) ==
    CASE x.t = "undefined" -> NaN
      [] x.t = "null" -> Num(0)
      [] OTHER -> x

IsNumber(x) == x.t = "number"

\* x is falsy: undefined, null, NaN or 0
Falsy(x) == x.t \in {"undefined", "null", "NaN"} \/ (x.t = "number" /\ x.n = 0)

\* x || 0
OrZero(x) == IF Falsy(x) THEN Num(0) ELSE x

\* x === 0
StrictEqZero(x) == x.t = "number" /\ x.n = 0

JsAdd(x, y) ==
    LET a == ToNumber(x)
        b == ToNumber(y)
    IN  CASE a.t = "NaN" \/ b.t = "NaN" -> NaN
          [] a.t = "Infinity" /\ b.t = "Infinity" ->
                IF a.n = b.n THEN a ELSE NaN
          [] a.t = "Infinity" -> a
          [] b.t = "Infinity" -> b
          [] OTHER ->
                IF a.d = 1 /\ b.d = 1 THEN Num(a.n + b.n)
                ELSE Rat(a.n * b.d + b.n * a.d, a.d * b.d)

JsNeg(x) ==
    LET a == ToNumber(x)
    IN  CASE a.t = "NaN" -> NaN
          [] a.t = "Infinity" -> Infinity(-a.n)
          [] OTHER -> [a EXCEPT !.n = -a.n]

JsSub(x, y) == JsAdd(x, JsNeg(y))

JsMul(x, y) ==
    LET a == ToNumber(x)
        b == ToNumber(y)
    IN  CASE a.t = "NaN" \/ b.t = "NaN" -> NaN
          [] a.t = "Infinity" \/ b.t = "Infinity" ->
                IF Sign(a.n) * Sign(b.n) = 0 THEN NaN
                ELSE Infinity(Sign(a.n) * Sign(b.n))
          [] OTHER ->
                IF a.d = 1 /\ b.d = 1 THEN Num(a.n * b.n)
                ELSE Rat(a.n * b.n, a.d * b.d)

JsDiv(x, y) ==
    LET a == ToNumber(x)
        b == ToNumber(y)
    IN  CASE a.t = "NaN" \/ b.t = "NaN" -> NaN
          [] a.t = "Infinity" /\ b.t = "Infinity" -> NaN
          [] a.t = "Infinity" ->
                Infinity(IF b.n < 0 THEN -a.n ELSE a.n)
          [] b.t = "Infinity" -> Num(0)
          [] b.n = 0 -> IF a.n = 0 THEN NaN ELSE Infinity(Sign(a.n))
          [] OTHER -> Rat(a.n * b.d, a.d * b.n)

\* x > y and x < y on numbers; any comparison with NaN is false
JsGt(x, y) ==
    LET a == ToNumber(x)
        b == ToNumber(y)
    IN  CASE a.t = "NaN" \/ b.t = "NaN" -> FALSE
          [] a.t = "Infinity" -> a.n > 0 /\ ~(b.t = "Infinity" /\ b.n > 0)
          [] b.t = "Infinity" -> b.n < 0
          [] OTHER -> a.n * b.d > b.n * a.d

JsLt(x, y) == JsGt(y, x)

\* x >= y
JsGe(x, y) ==
    LET a == ToNumber(x)
        b == ToNumber(y)
    IN  JsGt(a, b) \/ (a.t = b.t /\ a.t # "NaN" /\ a.n * b.d = b.n * a.d)

\* Math.round: the nearest integer, a tie going up
MathRound(x) ==
    LET a == ToNumber(x)
    IN  IF a.t # "number" THEN a
        ELSE Num((2 * a.n + a.d) \div (2 * a.d))

\* Math.max(0, x)
MathMax0(x) ==
    LET a == ToNumber(x)
    IN  CASE a.t = "NaN" -> NaN
          [] JsGt(a, Num(0)) -> a
          [] OTHER -> Num(0)

----------------------------------------------------------------------------
(* Centralized performance calculations *)

calculateROI_NoGuard(profitLoss, wager) ==
    JsMul(JsDiv(profitLoss, wager), Num(100))

calculateROI_Fraction(profitLoss, wager) ==
    IF StrictEqZero(wager) THEN Num(0)
    ELSE JsDiv(profitLoss, wager)

calculateROI(profitLoss, wager) ==
    IF StrictEqZero(wager) THEN Num(0)
    ELSE JsMul(JsDiv(profitLoss, wager), Num(100))

\* the text formatROI returns: "" (shown FALSE) or `${pct}%`
formatROI(profitLoss, wager) ==
    IF StrictEqZero(wager) THEN [shown |-> FALSE, pct |-> Num(0)]
    ELSE [shown |-> TRUE, pct |-> MathRound(calculateROI(profitLoss, wager))]

calculateWinRate_NoGuard(wins, totalBets) == JsDiv(wins, totalBets)

calculateWinRate(wins, totalBets) ==
    IF StrictEqZero(totalBets) THEN Num(0)
    ELSE JsDiv(wins, totalBets)

\* `${Math.round(value * 100)}%`
formatPercentage(value) == MathRound(JsMul(value, Num(100)))

formatWinRate(wins, totalBets) == formatPercentage(calculateWinRate(wins, totalBets))

getWlRecordColorClass(wins, losses) ==
    IF JsGt(wins, losses) THEN "positive"
    ELSE IF JsLt(wins, losses) THEN "negative"
    ELSE ""


----------------------------------------------------------------------------
(* The weekly aggregation of updateSummary.  A recommendation carries the   *)
(* fields the aggregation reads: recommendedWager and profitLoss are        *)
(* JavaScript values, wasCorrect is "true", "false", "null" or "undefined" *)
(* (the field absent), isTopPick is the truthiness of rec.isTopPick.        *)

WagerOf(rec) == OrZero(rec.recommendedWager)

ProfitLossOf(rec) == OrZero(rec.profitLoss)

IsCompleted_OnlyWins(rec) == rec.wasCorrect = "true"

IsCompleted(rec) == rec.wasCorrect # "null"

IsWin(rec) == rec.wasCorrect = "true"

IsLoss_Never(rec) == FALSE

IsLoss(rec) == rec.wasCorrect = "false"

PendingWager_NoClamp(wagered, completedWager) == JsSub(wagered, completedWager)

PendingWager(wagered, completedWager) == MathMax0(JsSub(wagered, completedWager))

\* value > 0 adds 'positive', value < 0 adds 'negative', else no class
SignClass(value) ==
    IF JsGt(value, Num(0)) THEN "positive"
    ELSE IF JsLt(value, Num(0)) THEN "negative"
    ELSE ""

ZeroAcc ==
    [count |-> 0, wagered |-> Num(0), wins |-> 0, losses |-> 0, pending |-> 0,
     profitLoss |-> Num(0), completedWager |-> Num(0)]

\* one iteration of the first forEach: the overall accumulators
OverallStep(acc, rec) ==
    LET wager == WagerOf(rec)
        a == [acc EXCEPT !.count = @ + 1, !.wagered = JsAdd(@, wager)]
    IN  IF IsWin(rec)
        THEN [a EXCEPT !.wins = @ + 1,
                       !.profitLoss = JsAdd(@, ProfitLossOf(rec)),
                       !.completedWager = JsAdd(@, wager)]
        ELSE IF IsLoss(rec)
        THEN [a EXCEPT !.losses = @ + 1,
                       !.profitLoss = JsAdd(@, ProfitLossOf(rec)),
                       !.completedWager = JsAdd(@, wager)]
        ELSE [a EXCEPT !.pending = @ + 1]

\* one iteration of the second forEach, on the accumulators of rec's cohort
CohortStep(acc, rec) ==
    LET wager == WagerOf(rec)
        profitLoss == ProfitLossOf(rec)
        a == [acc EXCEPT !.count = @ + 1, !.wagered = JsAdd(@, wager)]
    IN  IF IsCompleted(rec)
        THEN [a EXCEPT !.completedWager = JsAdd(@, wager),
                       !.profitLoss = JsAdd(@, profitLoss),
                       !.wins = IF IsWin(rec) THEN @ + 1 ELSE @,
                       !.losses = IF ~IsWin(rec) /\ IsLoss(rec) THEN @ + 1 ELSE @]
        ELSE [a EXCEPT !.pending = @ + 1]

RECURSIVE OverallPass(_, _)
OverallPass(recs, k) ==
    IF k = 0 THEN ZeroAcc ELSE OverallStep(OverallPass(recs, k - 1), recs[k])

RECURSIVE CohortPass(_, _, _)
CohortPass(recs, k, top) ==
    IF k = 0 THEN ZeroAcc
    ELSE IF recs[k].isTopPick = top
         THEN CohortStep(CohortPass(recs, k - 1, top), recs[k])
         ELSE CohortPass(recs, k - 1, top)

\* what updateSummary writes for one cohort: its counts and amounts, the
\* formatted ROI, the colour class of its P&L and its at-risk amount
CohortView(acc) ==
    [count |-> acc.count, wagered |-> acc.wagered,
     wins |-> acc.wins, losses |-> acc.losses, pending |-> acc.pending,
     profitLoss |-> acc.profitLoss, completedWager |-> acc.completedWager,
     pendingWager |-> PendingWager(acc.wagered, acc.completedWager),
     roi |-> formatROI(acc.profitLoss, acc.wagered),
     plClass |-> SignClass(acc.profitLoss),
     wlClass |-> getWlRecordColorClass(Num(acc.wins), Num(acc.losses)),
     asterisk |-> acc.pending > 0]

\* the weekly summary of a recommendation list; the overall count shown is
\* recommendations.length
WeeklySummary(recs) ==
    [set |-> TRUE,
     overall |-> [CohortView(OverallPass(recs, Len(recs))) EXCEPT !.count = Len(recs)],
     topPicks |-> CohortView(CohortPass(recs, Len(recs), TRUE)),
     otherBets |-> CohortView(CohortPass(recs, Len(recs), FALSE))]

----------------------------------------------------------------------------
(* The server's performance snapshot and what is derived from it *)

startingBankroll == 10000

\* the header of updateSummary: no field of data is defaulted
HeaderView(data) ==
    LET currentBankroll == JsAdd(Num(startingBankroll), data.totalProfitLoss)
        totalWins == MathRound(JsMul(data.winRate, data.totalBets))
        totalLosses == JsSub(data.totalBets, totalWins)
        overallROI == JsMul(JsDiv(JsSub(currentBankroll, Num(startingBankroll)),
                                  Num(startingBankroll)), Num(100))
    IN  [set |-> TRUE,
         bankroll |-> currentBankroll,
         winRatePct |-> formatPercentage(data.winRate),
         wins |-> totalWins, losses |-> totalLosses,
         roiPct |-> formatPercentage(JsDiv(overallROI, Num(100))),
         performanceClass |-> IF JsGt(data.winRate, Rat(1, 2)) THEN "positive"
                              ELSE IF JsLt(data.winRate, Rat(1, 2)) THEN "negative"
                              ELSE "",
         roiClass |-> SignClass(overallROI)]

\* totalPL >= 0 ? 'positive' : 'negative'
GeZeroClass(value) == IF JsGe(value, Num(0)) THEN "positive" ELSE "negative"

\* the all-time panel of loadPerformanceMetricsInternal: every field of data
\* is defaulted with || 0
AllTimeView(data) ==
    LET totalBets == OrZero(data.totalBets)
        totalWager == OrZero(data.totalWager)
        totalPL == OrZero(data.totalProfitLoss)
        totalWins == MathRound(JsMul(OrZero(data.winRate), totalBets))
        totalLosses == JsSub(totalBets, totalWins)
        winRate == calculateWinRate(totalWins, totalBets)
        topPicksCount == OrZero(data.topPicksCount)
        topPicksWager == OrZero(data.topPicksWager)
        topPicksPL == OrZero(data.topPicksProfitLoss)
        topPicksWins == MathRound(JsMul(OrZero(data.topPicksWinRate), topPicksCount))
        topPicksWinRate == calculateWinRate(topPicksWins, topPicksCount)
        otherBetsCount == JsSub(totalBets, topPicksCount)
        otherBetsWager == JsSub(totalWager, topPicksWager)
        otherBetsPL == JsSub(totalPL, topPicksPL)
        otherBetsWins == JsSub(totalWins, topPicksWins)
        otherBetsWinRate == calculateWinRate(otherBetsWins, otherBetsCount)
    IN  [set |-> TRUE,
         total |->
            [count |-> totalBets, wager |-> totalWager, profitLoss |-> totalPL,
             roi |-> formatROI(totalPL, totalWager),
             wins |-> totalWins, losses |-> totalLosses,
             wlClass |-> getWlRecordColorClass(totalWins, totalLosses),
             winRatePct |-> formatWinRate(totalWins, totalBets),
             winRateClass |-> IF JsGt(winRate, Rat(1, 2)) THEN "positive"
                              ELSE IF JsLt(winRate, Rat(1, 2)) THEN "negative"
                              ELSE "",
             plClass |-> GeZeroClass(totalPL)],
         topPicks |->
            [count |-> topPicksCount, wager |-> topPicksWager,
             profitLoss |-> topPicksPL,
             roi |-> formatROI(topPicksPL, topPicksWager),
             wins |-> topPicksWins, losses |-> JsSub(topPicksCount, topPicksWins),
             wlClass |-> getWlRecordColorClass(topPicksWins,
                                               JsSub(topPicksCount, topPicksWins)),
             winRatePct |-> formatWinRate(topPicksWins, topPicksCount),
             winRateClass |-> IF JsGe(topPicksWinRate, Rat(1, 2))
                              THEN "positive" ELSE "negative",
             plClass |-> GeZeroClass(topPicksPL)],
         otherBets |->
            [count |-> otherBetsCount, wager |-> otherBetsWager,
             profitLoss |-> otherBetsPL,
             roi |-> formatROI(otherBetsPL, otherBetsWager),
             wins |-> otherBetsWins, losses |-> JsSub(otherBetsCount, otherBetsWins),
             wlClass |-> getWlRecordColorClass(otherBetsWins,
                                               JsSub(otherBetsCount, otherBetsWins)),
             winRatePct |-> formatWinRate(otherBetsWins, otherBetsCount),
             winRateClass |-> IF JsGe(otherBetsWinRate, Rat(1, 2))
                              THEN "positive" ELSE "negative",
             plClass |-> GeZeroClass(otherBetsPL)]]

----------------------------------------------------------------------------
(* The page: the globals of the script, the asynchronous calls in flight,   *)
(* the document and the console.                                            *)

VARIABLES
    currentWeek,      \* let currentWeek
    totalWeeks,       \* let totalWeeks
    availableWeeks,   \* const availableWeeks (a Set)
    server,           \* what the API serves during the session
    initTask,         \* the call of initializeWeekNavigation
    navs,             \* the calls of changeWeek, in call order
    loads,            \* the calls of loadRecommendations, in call order
    perfInFlight,     \* un-awaited calls of loadPerformanceMetrics in flight
    failures,         \* how many fetches have been rejected so far
    dom,              \* the elements the code writes
    console,          \* the messages passed to console.error
    recommendations,  \* the argument of a direct call of updateSummary
    call              \* a direct call of a calculation and what it returned

pageVars ==
    <<currentWeek, totalWeeks, availableWeeks, initTask, navs, loads,
      perfInFlight, failures, dom, console>>

vars == <<pageVars, server, recommendations, call>>

\* bounds of the model
MaxClicks == 1
MaxFailures == 1
SeasonWeeks == 3
MaxRecs == 3
MaxRaw == 2
MaxAmount == 6

\* let totalWeeks = 18
defaultTotalWeeks == 18

Unset == [set |-> FALSE]

NoUwn == [stage |-> "idle", prev |-> 0, next |-> 0, hasPrev |-> FALSE, hasNext |-> FALSE]

InitialDom ==
    [recommendations |-> [kind |-> "initial", recs |-> <<>>],
     header |-> Unset, weekly |-> Unset, weekTitle |-> 0,
     allTime |-> Unset,
     weeklyContainer |-> "initial", performanceContainer |-> "initial",
     prevBtn |-> "initial", nextBtn |-> "initial"]

Bet(wager, profitLoss, wasCorrect, isTopPick) ==
    [recommendedWager |-> wager, profitLoss |-> profitLoss,
     wasCorrect |-> wasCorrect, isTopPick |-> isTopPick]

----------------------------------------------------------------------------
(* The API, as far as the page reads it *)

FullSnapshot ==
    [totalBets |-> Num(10), totalWager |-> Num(1000), totalProfitLoss |-> Num(150),
     winRate |-> Rat(3, 5), topPicksCount |-> Num(4), topPicksWager |-> Num(400),
     topPicksProfitLoss |-> Num(100), topPicksWinRate |-> Rat(3, 4)]

\* GET /api/recommendations/week/{week}: the weeks played so far have
\* recommendations, each week its own
ServerRecs(week) ==
    IF week \in 1..server.lastWeek
    THEN <<Bet(Num(50 * week), Num(50), "true", TRUE),
           Bet(Num(100), Undefined, "null", FALSE)>>
    ELSE <<>>

Servers == [lastWeek : 0..SeasonWeeks, snapshot : {FullSnapshot}]

----------------------------------------------------------------------------
(* Synchronous pieces of the handlers, as functions of the page *)

Page ==
    [cw |-> currentWeek, tw |-> totalWeeks, avail |-> availableWeeks,
     init |-> initTask, navs |-> navs, loads |-> loads, perf |-> perfInFlight,
     failures |-> failures, dom |-> dom, console |-> console]

SetPage(p) ==
    /\ currentWeek' = p.cw
    /\ totalWeeks' = p.tw
    /\ availableWeeks' = p.avail
    /\ initTask' = p.init
    /\ navs' = p.navs
    /\ loads' = p.loads
    /\ perfInFlight' = p.perf
    /\ failures' = p.failures
    /\ dom' = p.dom
    /\ console' = p.console

\* checkWeek(week) once its fetch has settled: true exactly when the fetch
\* succeeded with a non-empty list
CheckWeekResult(week, ok) == ok /\ Len(ServerRecs(week)) > 0

\* updateWeekNavigation after checkWeek(prevWeek): checkWeek(nextWeek) returns
\* at once for a week already in availableWeeks, else its fetch is in flight
UwnNextPhase(u, avail) ==
    IF u.next # 0 /\ u.next \notin avail
    THEN [u EXCEPT !.stage = "next"]
    ELSE [u EXCEPT !.stage = "done", !.hasNext = (u.next # 0)]

\* updateWeekNavigation up to its first fetch
UwnBegin(cw, tw, avail) ==
    LET prev == IF cw > 1 THEN cw - 1 ELSE 0
        next == IF cw < tw THEN cw + 1 ELSE 0
        u == [stage |-> "prev", prev |-> prev, next |-> next,
              hasPrev |-> FALSE, hasNext |-> FALSE]
    IN  IF prev # 0 /\ prev \notin avail THEN u
        ELSE UwnNextPhase([u EXCEPT !.hasPrev = (prev # 0)], avail)

\* the fetch updateWeekNavigation waits for settles
UwnResolve(u, avail, ok) ==
    IF u.stage = "prev"
    THEN LET has == CheckWeekResult(u.prev, ok)
             avail2 == IF has THEN avail \cup {u.prev} ELSE avail
         IN  [u |-> UwnNextPhase([u EXCEPT !.hasPrev = has], avail2), avail |-> avail2]
    ELSE LET has == CheckWeekResult(u.next, ok)
         IN  [u |-> [u EXCEPT !.stage = "done", !.hasNext = has],
              avail |-> IF has THEN avail \cup {u.next} ELSE avail]

Buttons(d, u) ==
    [d EXCEPT !.prevBtn = IF u.hasPrev THEN "flex" ELSE "none",
              !.nextBtn = IF u.hasNext THEN "flex" ELSE "none"]

LogIf(cond, log, message) == IF cond THEN log \cup {message} ELSE log

\* updateSummary once its fetch has resolved with data
RenderSummary(d, recs, data, week) ==
    [d EXCEPT !.header = HeaderView(data),
              !.weekly = WeeklySummary(recs),
              !.weekTitle = week,
              !.weeklyContainer = "block"]

\* loadPerformanceMetricsInternal once its fetch has resolved with data
RenderAllTime(d, data) ==
    [d EXCEPT !.allTime = AllTimeView(data), !.performanceContainer = "block"]

\* displayRecommendations
DisplayRecommendations(d, recs) ==
    [d EXCEPT !.recommendations =
        [kind |-> IF Len(recs) = 0 THEN "empty" ELSE "list", recs |-> recs]]

\* loadRecommendations up to its fetch
StartLoad(p, awaited) ==
    [p EXCEPT !.loads = Append(@,
        [week |-> p.cw, pc |-> "fetchRecs", awaited |-> awaited,
         fetched |-> FALSE, summarised |-> FALSE, rendered |-> FALSE,
         uwn |-> NoUwn])]

\* the end of initializeWeekNavigation: both containers are shown
InitFinish(p) ==
    [p EXCEPT !.dom.performanceContainer = "block",
              !.dom.weeklyContainer = "block",
              !.init = [pc |-> "done", uwn |-> NoUwn]]

\* initializeWeekNavigation from its call of updateWeekNavigation
InitRunUwn(p) ==
    LET u == UwnBegin(p.cw, p.tw, p.avail)
    IN  IF u.stage = "done"
        THEN InitFinish([p EXCEPT !.dom = Buttons(@, u)])
        ELSE [p EXCEPT !.init.pc = "nav", !.init.uwn = u]

\* loadRecommendations returns; the initializeWeekNavigation awaiting it goes on
LoadFinish(p, i) ==
    LET q == [p EXCEPT !.loads[i].pc = "done", !.loads[i].uwn = NoUwn,
                       !.loads[i].awaited = FALSE]
    IN  IF p.loads[i].awaited THEN InitRunUwn(q) ELSE q

\* loadRecommendations from its call of updateWeekNavigation
LoadRunUwn(p, i) ==
    LET u == UwnBegin(p.cw, p.tw, p.avail)
    IN  IF u.stage = "done"
        THEN LoadFinish([p EXCEPT !.dom = Buttons(@, u)], i)
        ELSE [p EXCEPT !.loads[i].pc = "nav", !.loads[i].uwn = u]

\* changeWeek once checkWeek(newWeek) returned true
ChangeWeekAdvance(p, k) ==
    LET p1 == StartLoad([p EXCEPT !.cw = p.navs[k].newWeek], FALSE)
        p2 == [p1 EXCEPT !.perf = @ + 1]
        u == UwnBegin(p2.cw, p2.tw, p2.avail)
    IN  IF u.stage = "done"
        THEN [p2 EXCEPT !.dom = Buttons(@, u), !.navs[k].pc = "done"]
        ELSE [p2 EXCEPT !.navs[k].uwn = u, !.navs[k].pc = "nav"]

----------------------------------------------------------------------------
(* The page's handlers.  A handler runs to its next await; a fetch in       *)
(* flight settles in a later step, resolved (ok) or rejected.  At most      *)
(* MaxFailures fetches are rejected in a session.                           *)

NoCall == [fn |-> "none", a |-> 0, b |-> 0, ret |-> Num(0)]

Outcomes == IF failures < MaxFailures THEN BOOLEAN ELSE {TRUE}

Settled(p, ok) == [p EXCEPT !.failures = IF ok THEN @ ELSE @ + 1]

Init ==
    /\ server \in Servers
    /\ currentWeek = 1
    /\ totalWeeks = defaultTotalWeeks
    /\ availableWeeks = {1}
    /\ initTask = [pc |-> "fetchWeekInfo", uwn |-> NoUwn]
    /\ navs = <<>>
    /\ loads = <<>>
    /\ perfInFlight = 0
    /\ failures = 0
    /\ dom = InitialDom
    /\ console = {}
    /\ recommendations = <<>>
    /\ call = NoCall

\* initializeWeekNavigation: the fetch of /api/nfl-week/current resolves.
\* weekInfo is the current week of the season and whether it ends within 48 h.
InitWeekInfoResolve ==
    /\ initTask.pc = "fetchWeekInfo"
    /\ \E week \in 1..SeasonWeeks, nearEnd \in BOOLEAN :
            SetPage([Page EXCEPT
                !.cw = IF nearEnd THEN week + 1 ELSE week,
                !.tw = SeasonWeeks,
                !.init.pc = "awaitPerf"])
    /\ UNCHANGED <<server, recommendations, call>>

\* initializeWeekNavigation: the fetch of /api/nfl-week/current is rejected
\* and the catch block runs
InitWeekInfoReject ==
    /\ initTask.pc = "fetchWeekInfo"
    /\ failures < MaxFailures
    /\ LET p1 == [Page EXCEPT
                    !.console = @ \cup {"Error initializing week navigation"},
                    !.cw = 1,
                    !.perf = @ + 1]
       IN  SetPage(Settled(InitRunUwn(StartLoad(p1, FALSE)), FALSE))
    /\ UNCHANGED <<server, recommendations, call>>

\* the loadPerformanceMetrics that initializeWeekNavigation awaits settles,
\* and initializeWeekNavigation calls loadRecommendations
InitPerfResolve ==
    /\ initTask.pc = "awaitPerf"
    /\ \E ok \in Outcomes :
        LET p1 == IF ok
                  THEN [Page EXCEPT !.dom = RenderAllTime(@, server.snapshot)]
                  ELSE [Page EXCEPT !.console = @ \cup {"Error loading performance metrics"}]
        IN  SetPage(Settled(StartLoad([p1 EXCEPT !.init.pc = "awaitLoad"], TRUE), ok))
    /\ UNCHANGED <<server, recommendations, call>>

\* a fetch of the updateWeekNavigation that initializeWeekNavigation awaits settles
InitUwnResolve ==
    /\ initTask.pc = "nav"
    /\ \E ok \in Outcomes :
        LET r == UwnResolve(initTask.uwn, availableWeeks, ok)
            p1 == [Page EXCEPT !.avail = r.avail, !.init.uwn = r.u,
                               !.console = LogIf(~ok, @, "Error checking week")]
        IN  SetPage(Settled(IF r.u.stage = "done"
                            THEN InitFinish([p1 EXCEPT !.dom = Buttons(@, r.u)])
                            ELSE p1, ok))
    /\ UNCHANGED <<server, recommendations, call>>

\* an un-awaited loadPerformanceMetrics settles
PerfResolve ==
    /\ perfInFlight > 0
    /\ \E ok \in Outcomes :
        SetPage(Settled(
            IF ok
            THEN [Page EXCEPT !.perf = @ - 1,
                              !.dom = RenderAllTime(@, server.snapshot)]
            ELSE [Page EXCEPT !.perf = @ - 1,
                              !.console = @ \cup {"Error loading performance metrics"}],
            ok))
    /\ UNCHANGED <<server, recommendations, call>>

DoneNav == [newWeek |-> 0, pc |-> "done", uwn |-> NoUwn]

\* changeWeek(direction) up to its first fetch.  The user navigates once
\* initializeWeekNavigation has shown the page, at most MaxClicks times.
ChangeWeek(direction) ==
    /\ initTask.pc = "done"
    /\ Len(navs) < MaxClicks
    /\ LET newWeek == currentWeek + direction
           k == Len(navs) + 1
           entry == [newWeek |-> newWeek, pc |-> "checkWeek", uwn |-> NoUwn]
       IN  IF newWeek >= 1 /\ newWeek <= totalWeeks
           THEN IF newWeek \in availableWeeks
                THEN SetPage(ChangeWeekAdvance([Page EXCEPT !.navs = Append(@, entry)], k))
                ELSE SetPage([Page EXCEPT !.navs = Append(@, entry)])
           ELSE SetPage([Page EXCEPT !.navs = Append(@, DoneNav)])
    /\ UNCHANGED <<server, recommendations, call>>

hasRecommendations_Always(week, ok) == TRUE

\* changeWeek: const hasRecommendations = await checkWeek(newWeek)
hasRecommendations(week, ok) == CheckWeekResult(week, ok)

\* the fetch of changeWeek's checkWeek(newWeek) settles
ChangeWeekCheckResolve(k) ==
    /\ navs[k].pc = "checkWeek"
    /\ \E ok \in Outcomes :
        LET week == navs[k].newWeek
            p1 == [Page EXCEPT !.console = LogIf(~ok, @, "Error checking week")]
        IN  SetPage(Settled(
                IF hasRecommendations(week, ok)
                THEN ChangeWeekAdvance([p1 EXCEPT !.avail = @ \cup {week}], k)
                ELSE [p1 EXCEPT !.navs[k] = DoneNav],
                ok))
    /\ UNCHANGED <<server, recommendations, call>>

\* a fetch of the updateWeekNavigation that changeWeek awaits settles
ChangeWeekUwnResolve(k) ==
    /\ navs[k].pc = "nav"
    /\ \E ok \in Outcomes :
        LET r == UwnResolve(navs[k].uwn, availableWeeks, ok)
            p1 == [Page EXCEPT !.avail = r.avail, !.navs[k].uwn = r.u,
                               !.console = LogIf(~ok, @, "Error checking week")]
        IN  SetPage(Settled(
                IF r.u.stage = "done"
                THEN [p1 EXCEPT !.dom = Buttons(@, r.u), !.navs[k] = DoneNav]
                ELSE p1,
                ok))
    /\ UNCHANGED <<server, recommendations, call>>

\* loadRecommendations: the fetch of the week's recommendations resolves
LoadRecsResolve(i) ==
    /\ loads[i].pc = "fetchRecs"
    /\ LET recs == ServerRecs(loads[i].week)
       IN  SetPage([Page EXCEPT
                !.avail = IF Len(recs) > 0 THEN @ \cup {loads[i].week} ELSE @,
                !.dom = DisplayRecommendations(@, recs),
                !.loads[i].fetched = TRUE,
                !.loads[i].pc = "fetchPerf"])
    /\ UNCHANGED <<server, recommendations, call>>

\* loadRecommendations: the fetch of the week's recommendations is rejected
\* and the catch block runs
LoadRecsReject(i) ==
    /\ loads[i].pc = "fetchRecs"
    /\ failures < MaxFailures
    /\ SetPage(Settled(LoadFinish([Page EXCEPT
                !.console = @ \cup {"Error loading recommendations"},
                !.dom.recommendations = [kind |-> "error", recs |-> <<>>]], i), FALSE))
    /\ UNCHANGED <<server, recommendations, call>>

\* loadRecommendations: the fetch of updateSummary settles; updateSummary
\* renders or logs, and loadRecommendations calls updateWeekNavigation
LoadPerfResolve(i) ==
    /\ loads[i].pc = "fetchPerf"
    /\ \E ok \in Outcomes :
        LET p1 == IF ok
                  THEN [Page EXCEPT
                        !.dom = RenderSummary(@, ServerRecs(loads[i].week),
                                              server.snapshot, currentWeek),
                        !.loads[i].rendered = TRUE]
                  ELSE [Page EXCEPT !.console = @ \cup {"Error updating summary"}]
        IN  SetPage(Settled(LoadRunUwn([p1 EXCEPT !.loads[i].summarised = TRUE], i), ok))
    /\ UNCHANGED <<server, recommendations, call>>

\* a fetch of the updateWeekNavigation that loadRecommendations awaits settles
LoadUwnResolve(i) ==
    /\ loads[i].pc = "nav"
    /\ \E ok \in Outcomes :
        LET r == UwnResolve(loads[i].uwn, availableWeeks, ok)
            p1 == [Page EXCEPT !.avail = r.avail, !.loads[i].uwn = r.u,
                               !.console = LogIf(~ok, @, "Error checking week")]
        IN  SetPage(Settled(
                IF r.u.stage = "done"
                THEN LoadFinish([p1 EXCEPT !.dom = Buttons(@, r.u)], i)
                ELSE p1,
                ok))
    /\ UNCHANGED <<server, recommendations, call>>

Next ==
    \/ InitWeekInfoResolve
    \/ InitWeekInfoReject
    \/ InitPerfResolve
    \/ InitUwnResolve
    \/ PerfResolve
    \/ \E direction \in {-1, 1} : ChangeWeek(direction)
    \/ \E k \in DOMAIN navs : ChangeWeekCheckResolve(k)
    \/ \E k \in DOMAIN navs : ChangeWeekUwnResolve(k)
    \/ \E i \in DOMAIN loads : LoadRecsResolve(i)
    \/ \E i \in DOMAIN loads : LoadRecsReject(i)
    \/ \E i \in DOMAIN loads : LoadPerfResolve(i)
    \/ \E i \in DOMAIN loads : LoadUwnResolve(i)

Spec == Init /\ [][Next]_vars

----------------------------------------------------------------------------
(* Direct calls of the calculations and of the renderers, on inputs drawn   *)
(* from bounded sets.                                                       *)

SeqsUpTo(S, n) == UNION {[1..k -> S] : k \in 0..n}

\* BetRecords as the API documents them: a wager, and either an outcome with
\* its profit or loss, or neither
BetOutcomes ==
    {<<"true", Num(50)>>, <<"true", Num(100)>>, <<"false", Num(-100)>>,
     <<"false", Num(-50)>>, <<"null", Null>>}

BetRecords ==
    {Bet(wager, o[2], o[1], top) :
        wager \in {Num(50), Num(100)}, o \in BetOutcomes, top \in BOOLEAN}

\* records as they may arrive: a field missing, wasCorrect absent, a
\* negative wager
RawRecords ==
    [recommendedWager : {Undefined, Num(100), Num(-50)},
     profitLoss : {Null, Num(50), Num(-100)},
     wasCorrect : {"true", "false", "null", "undefined"},
     isTopPick : BOOLEAN]

\* records with a numeric field missing, and one complete record
MissingFieldRecords ==
    {Bet(Undefined, Num(50), "true", TRUE), Bet(Num(100), Undefined, "false", FALSE),
     Bet(Undefined, Null, "true", FALSE), Bet(Num(100), Num(50), "true", TRUE)}

\* snapshots with any of the fields of the header missing, and the top picks'
\* fields present or missing
PartialSnapshots ==
    {[FullSnapshot EXCEPT
        !.totalBets = IF b THEN @ ELSE Undefined,
        !.totalProfitLoss = IF pl THEN @ ELSE Undefined,
        !.winRate = IF wr THEN @ ELSE Undefined,
        !.totalWager = IF top THEN @ ELSE Undefined,
        !.topPicksCount = IF top THEN @ ELSE Undefined,
        !.topPicksWager = IF top THEN @ ELSE Undefined,
        !.topPicksProfitLoss = IF top THEN @ ELSE Undefined,
        !.topPicksWinRate = IF top THEN @ ELSE Undefined] :
     b \in BOOLEAN, pl \in BOOLEAN, wr \in BOOLEAN, top \in BOOLEAN}

\* a loaded page with no call in flight
IdlePage ==
    /\ currentWeek = 1
    /\ totalWeeks = defaultTotalWeeks
    /\ availableWeeks = {1}
    /\ initTask = [pc |-> "done", uwn |-> NoUwn]
    /\ navs = <<>>
    /\ loads = <<>>
    /\ perfInFlight = 0
    /\ failures = 0
    /\ dom = InitialDom
    /\ console = {}

\* updateSummary(recommendations), its fetch resolved with the snapshot
UpdateSummaryCall ==
    /\ ~dom.weekly.set
    /\ dom' = RenderSummary(dom, recommendations, server.snapshot, currentWeek)
    /\ UNCHANGED <<currentWeek, totalWeeks, availableWeeks, initTask, navs, loads,
                   perfInFlight, failures, console, server, recommendations, call>>

\* loadPerformanceMetrics(), its fetch resolved with the snapshot
LoadPerformanceMetricsCall ==
    /\ ~dom.allTime.set
    /\ dom' = RenderAllTime(dom, server.snapshot)
    /\ UNCHANGED <<currentWeek, totalWeeks, availableWeeks, initTask, navs, loads,
                   perfInFlight, failures, console, server, recommendations, call>>

CallCalculateROI ==
    /\ call.fn = "none"
    /\ call' = [call EXCEPT !.fn = "calculateROI",
                            !.ret = calculateROI(Num(call.a), Num(call.b))]
    /\ UNCHANGED <<pageVars, server, recommendations>>

CallCalculateWinRate ==
    /\ call.fn = "none"
    /\ call' = [call EXCEPT !.fn = "calculateWinRate",
                            !.ret = calculateWinRate(Num(call.a), Num(call.b))]
    /\ UNCHANGED <<pageVars, server, recommendations>>

InitBets ==
    /\ IdlePage
    /\ server = [lastWeek |-> 0, snapshot |-> FullSnapshot]
    /\ recommendations \in SeqsUpTo(BetRecords, MaxRecs)
    /\ call = NoCall

InitRaw ==
    /\ IdlePage
    /\ server = [lastWeek |-> 0, snapshot |-> FullSnapshot]
    /\ recommendations \in SeqsUpTo(RawRecords, MaxRaw)
    /\ call = NoCall

InitSnapshot ==
    /\ IdlePage
    /\ server \in [lastWeek : {0}, snapshot : PartialSnapshots]
    /\ recommendations \in SeqsUpTo(MissingFieldRecords, MaxRaw)
    /\ call = NoCall

InitCalc ==
    /\ IdlePage
    /\ server = [lastWeek |-> 0, snapshot |-> FullSnapshot]
    /\ recommendations = <<>>
    /\ call \in [fn : {"none"}, a : -MaxAmount..MaxAmount,
                 b : -MaxAmount..MaxAmount, ret : {Num(0)}]

NextSummary == UpdateSummaryCall

NextSnapshot == UpdateSummaryCall \/ LoadPerformanceMetricsCall

NextCalc == CallCalculateROI \/ CallCalculateWinRate

SpecBets == InitBets /\ [][NextSummary]_vars

SpecRaw == InitRaw /\ [][NextSummary]_vars

SpecSnapshot == InitSnapshot /\ [][NextSnapshot]_vars

SpecCalc == InitCalc /\ [][NextCalc]_vars

\* the body of a response of /api/recommendations/week/{week}: the field
\* recommendations is absent, or it is a list
Responses ==
    {[present |-> FALSE, list |-> <<>>]}
        \cup [present : {TRUE}, list : SeqsUpTo(BetRecords, MaxRaw)]

\* data.recommendations || []
RecommendationsOrEmpty(data) == IF data.present THEN data.list ELSE <<>>

\* loadRecommendations from the response of its fetch to the return of
\* updateSummary, the fetch of updateSummary resolved with the snapshot.
\* Here the variable recommendations holds the body of the response.
LoadRecommendationsCall ==
    /\ dom.recommendations.kind = "initial"
    /\ LET recs == RecommendationsOrEmpty(recommendations)
       IN  /\ availableWeeks' = IF Len(recs) > 0
                                THEN availableWeeks \cup {currentWeek}
                                ELSE availableWeeks
           /\ dom' = RenderSummary(DisplayRecommendations(dom, recs), recs,
                                   server.snapshot, currentWeek)
    /\ UNCHANGED <<currentWeek, totalWeeks, initTask, navs, loads,
                   perfInFlight, failures, console, server, recommendations, call>>

InitResponse ==
    /\ IdlePage
    /\ server = [lastWeek |-> 0, snapshot |-> FullSnapshot]
    /\ recommendations \in Responses
    /\ call = NoCall

NextResponse == LoadRecommendationsCall

SpecResponse == InitResponse /\ [][NextResponse]_vars

\* BetRecords with a wager of zero or more
NonNegativeWagerRecords ==
    {Bet(wager, o[2], o[1], top) :
        wager \in {Num(0), Num(50), Num(100)},
        o \in {<<"true", Num(50)>>, <<"false", Num(-50)>>, <<"null", Null>>},
        top \in BOOLEAN}

InitWagers ==
    /\ IdlePage
    /\ server = [lastWeek |-> 0, snapshot |-> FullSnapshot]
    /\ recommendations \in SeqsUpTo(NonNegativeWagerRecords, MaxRecs)
    /\ call = NoCall

SpecWagers == InitWagers /\ [][NextSummary]_vars

----------------------------------------------------------------------------
(* Properties *)

Cohorts(w) == {w.overall, w.topPicks, w.otherBets}

RoutedCount(recs, top) == Cardinality({i \in DOMAIN recs : recs[i].isTopPick = top})

CountsAddUp ==
    dom.weekly.set =>
        LET w == dom.weekly
        IN  /\ \A c \in Cohorts(w) : c.wins + c.losses + c.pending = c.count
            /\ w.overall.count = Len(recommendations)
            /\ w.topPicks.count = RoutedCount(recommendations, TRUE)
            /\ w.otherBets.count = RoutedCount(recommendations, FALSE)

\* a list with a won top pick, a lost other bet and a pending bet has been aggregated
CountsWitness ==
    /\ dom.weekly.set
    /\ dom.weekly.topPicks.wins > 0
    /\ dom.weekly.otherBets.losses > 0
    /\ dom.weekly.overall.pending > 0

\* the latest call of loadRecommendations
Latest == loads[Len(loads)]

\* C3: a response for an earlier requested week that resolves after the
\* response for the latest requested week is discarded: once the latest call
\* of loadRecommendations has displayed its week, the recommendations shown
\* are that week's, and once it has rendered the weekly summary, the summary
\* shown is that week's.
StaleResponseDiscarded ==
    (Len(loads) > 0 /\ Latest.fetched) =>
        /\ dom.recommendations =
                [kind |-> IF Len(ServerRecs(Latest.week)) = 0 THEN "empty" ELSE "list",
                 recs |-> ServerRecs(Latest.week)]
        /\ Latest.rendered => dom.weekly = WeeklySummary(ServerRecs(Latest.week))

\* a fetch of the performance snapshot was rejected
SnapshotFetchFailed ==
    console \cap {"Error loading performance metrics", "Error updating summary"} # {}

\* C4: if the fetch of the performance snapshot fails, a user-visible error
\* state is presented and no summary container is shown without its values
\* rendered.
SnapshotFailureShowsError ==
    SnapshotFetchFailed =>
        /\ dom.recommendations.kind = "error"
        /\ dom.performanceContainer = "block" => dom.allTime.set
        /\ dom.weeklyContainer = "block" => dom.weekly.set

\* C5: the two summary sections degrade independently: when the fetch of the
\* recommendations succeeded and updateSummary has returned, the weekly
\* summary is shown whatever became of the snapshot; and when no fetch of the
\* snapshot by loadPerformanceMetrics failed and none is in flight, the
\* all-time panel is shown whatever became of the recommendations.
SectionsDegradeIndependently ==
    /\ (\E i \in DOMAIN loads : loads[i].fetched /\ loads[i].summarised)
            => dom.weekly.set
    /\ (/\ initTask.pc \notin {"fetchWeekInfo", "awaitPerf"}
        /\ perfInFlight = 0
        /\ "Error loading performance metrics" \notin console)
            => dom.allTime.set

\* C6: in every cohort pendingWager is max(0, wagered - completedWager), and
\* so never negative, for records in any order.
PendingWagerClamped ==
    dom.weekly.set =>
        \A c \in Cohorts(dom.weekly) :
            LET diff == JsSub(c.wagered, c.completedWager)
            IN  /\ c.pendingWager = IF JsGt(diff, Num(0)) THEN diff ELSE Num(0)
                /\ JsGe(c.pendingWager, Num(0))

\* a cohort whose completed wager exceeds its wagered total has been summarised
ClampWitness ==
    /\ dom.weekly.set
    /\ \E c \in Cohorts(dom.weekly) :
            JsLt(JsSub(c.wagered, c.completedWager), Num(0))

NumbersOf(view) ==
    {view.count, view.wager, view.profitLoss, view.roi.pct, view.wins,
     view.losses, view.winRatePct}

\* C7: missing numeric fields are defaulted to 0 and never show as NaN: in the
\* weekly cohorts (missing recommendedWager, profitLoss), in the header that
\* updateSummary derives from the snapshot, and in the all-time panel.
MissingFieldsDefaulted ==
    /\ dom.weekly.set =>
            \A c \in Cohorts(dom.weekly) :
                \A x \in {c.wagered, c.profitLoss, c.completedWager, c.pendingWager,
                          c.roi.pct} : IsNumber(x)
    /\ dom.header.set =>
            \A x \in {dom.header.bankroll, dom.header.wins, dom.header.losses,
                      dom.header.winRatePct, dom.header.roiPct} : IsNumber(x)
    /\ dom.allTime.set =>
            \A x \in NumbersOf(dom.allTime.total) \cup NumbersOf(dom.allTime.topPicks)
                        \cup NumbersOf(dom.allTime.otherBets) : IsNumber(x)

\* C8: calculateROI(p, w) returns 0 for every p when w = 0, and (p / w) * 100
\* for every w > 0.
CalculateROICorrect ==
    call.fn = "calculateROI" =>
        /\ call.b = 0 => call.ret = Num(0)
        /\ call.b > 0 =>
                /\ IsNumber(call.ret)
                /\ call.ret.n * call.b = 100 * call.a * call.ret.d

\* calculateROI has been called with a zero wager and a nonzero profit
CalculateROIWitness ==
    /\ call.fn = "calculateROI"
    /\ call.b = 0
    /\ call.a # 0

\* C9: calculateWinRate(wins, total) returns 0 when total = 0 and wins / total
\* otherwise; with wins, losses >= 0 and total = wins + losses it lies in [0, 1].
CalculateWinRateCorrect ==
    call.fn = "calculateWinRate" =>
        /\ call.b = 0 => call.ret = Num(0)
        /\ call.b # 0 =>
                /\ IsNumber(call.ret)
                /\ call.ret.n * call.b = call.a * call.ret.d
        /\ (call.a >= 0 /\ call.b >= call.a) =>
                /\ JsGe(call.ret, Num(0))
                /\ JsGe(Num(1), call.ret)

\* calculateWinRate has been called with no bets, wins included
CalculateWinRateWitness ==
    /\ call.fn = "calculateWinRate"
    /\ call.b = 0
    /\ call.a > 0

ScenarioA ==
    <<Bet(Num(100), Num(50), "true", TRUE),
      Bet(Num(100), Num(-100), "false", FALSE),
      Bet(Num(50), Null, "null", FALSE)>>

ScenarioAOverall(roi) ==
    LET o == dom.weekly.overall
    IN  /\ o.count = 3
        /\ o.wagered = Num(250)
        /\ o.wins = 1
        /\ o.losses = 1
        /\ o.pending = 1
        /\ o.profitLoss = Num(-50)
        /\ o.completedWager = Num(200)
        /\ o.pendingWager = Num(250 - 200)
        /\ o.roi = [shown |-> TRUE, pct |-> Num(roi)]

\* C10, as amended: for the three records of Scenario A the weekly overall
\* summary is count 3, wagered 250, wins 1, losses 1, pending 1, profitLoss
\* -50, completedWager 200, pendingWager 50, and the overall ROI is -20: the
\* profit or loss over the whole amount wagered, pending wagers included.
ScenarioAHolds ==
    (recommendations = ScenarioA /\ dom.weekly.set) => ScenarioAOverall(-20)

\* C10, as claimed: the same summary with an overall ROI of -25.
ScenarioAAsClaimed ==
    (recommendations = ScenarioA /\ dom.weekly.set) => ScenarioAOverall(-25)

\* the list of Scenario A has been aggregated
ScenarioAWitness ==
    /\ recommendations = ScenarioA
    /\ dom.weekly.set

\* what updateSummary shows for a cohort without records
ZeroCohort ==
    [count |-> 0, wagered |-> Num(0), wins |-> 0, losses |-> 0, pending |-> 0,
     profitLoss |-> Num(0), completedWager |-> Num(0), pendingWager |-> Num(0),
     roi |-> [shown |-> FALSE, pct |-> Num(0)],
     plClass |-> "", wlClass |-> "", asterisk |-> FALSE]

\* C11: when the field recommendations of the response is absent or an empty
\* list, the weekly aggregation completes (the summary is rendered and nothing
\* is logged), every field of every cohort is 0, and the ROI and the win rate
\* computed from such a cohort are 0, not NaN.
EmptyListAllZero ==
    (/\ dom.recommendations.kind # "initial"
     /\ (~recommendations.present \/ Len(recommendations.list) = 0)) =>
        /\ dom.weekly.set
        /\ console = {}
        /\ \A c \in Cohorts(dom.weekly) :
            /\ c = ZeroCohort
            /\ calculateROI(c.profitLoss, c.wagered) = Num(0)
            /\ calculateWinRate(Num(c.wins), Num(c.count)) = Num(0)

\* a response without the field recommendations has been loaded
EmptyListWitness ==
    /\ dom.recommendations.kind = "empty"
    /\ ~recommendations.present
    /\ dom.weekly.set

\* the sum of recommendedWager over the records among the first k of recs
\* that are unresolved (wasCorrect null) and whose isTopPick is in tops
RECURSIVE PendingSum(_, _, _)
PendingSum(recs, k, tops) ==
    IF k = 0 THEN Num(0)
    ELSE IF recs[k].wasCorrect = "null" /\ recs[k].isTopPick \in tops
         THEN JsAdd(PendingSum(recs, k - 1, tops), recs[k].recommendedWager)
         ELSE PendingSum(recs, k - 1, tops)

ClassifySign(value) ==
    IF value.t = "number" /\ value.n > 0 THEN "positive"
    ELSE IF value.t = "number" /\ value.n < 0 THEN "negative"
    ELSE ""

\* C13: the colour class of every profit or loss shown is three-way, positive
\* above 0, negative below 0 and neither at 0: for the P&L of the weekly
\* cohorts and for the all-time P&L of the total, the top picks and the other
\* bets.
SignClassificationThreeWay ==
    /\ dom.weekly.set =>
            \A c \in Cohorts(dom.weekly) : c.plClass = ClassifySign(c.profitLoss)
    /\ dom.allTime.set =>
            \A v \in {dom.allTime.total, dom.allTime.topPicks, dom.allTime.otherBets} :
                v.plClass = ClassifySign(v.profitLoss)

\* the records of recs that are pending: wasCorrect is null
PendingRecords(recs) == {i \in DOMAIN recs : recs[i].wasCorrect = "null"}

\* C14: a record is completed exactly when wasCorrect !== null and pending
\* otherwise, in the overall accumulators as in the accumulators of its
\* cohort, a record without the field wasCorrect included: the pending count
\* is the number of records whose wasCorrect is null, overall and summed over
\* the two cohorts, and the overall completedWager and profitLoss are the sums
\* of the cohorts'.
CompletedClassificationAgrees ==
    dom.weekly.set =>
        LET w == dom.weekly
        IN  /\ w.overall.pending = Cardinality(PendingRecords(recommendations))
            /\ w.topPicks.pending + w.otherBets.pending
                    = Cardinality(PendingRecords(recommendations))
            /\ w.overall.completedWager
                    = JsAdd(w.topPicks.completedWager, w.otherBets.completedWager)
            /\ w.overall.profitLoss
                    = JsAdd(w.topPicks.profitLoss, w.otherBets.profitLoss)

\* C15: once initializeWeekNavigation has returned, and through every
\* sequence of calls of changeWeek(+1) and changeWeek(-1), overlapping ones
\* included, 1 <= currentWeek <= totalWeeks.
CurrentWeekInRange ==
    initTask.pc = "done" => (1 <= currentWeek /\ currentWeek <= totalWeeks)

\* C16: changeWeek changes currentWeek only to a target week within
\* 1..totalWeeks for which checkWeek returned true (the week was in
\* availableWeeks, or its fetch resolved with a non-empty list), so that the
\* new currentWeek is in availableWeeks; in every other case, a rejected or
\* empty fetch included, currentWeek stays and no load of recommendations or
\* of performance metrics is started.
ChangeWeekOnlyWhenAvailable ==
    [][initTask.pc = "done" =>
        LET changed == currentWeek' # currentWeek
            reloaded == Len(loads') > Len(loads) \/ perfInFlight' > perfInFlight
        IN  (changed \/ reloaded) =>
                /\ currentWeek' >= 1
                /\ currentWeek' <= totalWeeks
                /\ \E k \in DOMAIN navs' :
                        /\ navs'[k].newWeek = currentWeek'
                        /\ (k \in DOMAIN navs => navs[k].pc = "checkWeek")
                /\ \/ currentWeek' \in availableWeeks
                   \/ failures' = failures /\ Len(ServerRecs(currentWeek')) > 0
                /\ currentWeek' \in availableWeeks'
                /\ Len(loads') = Len(loads) + 1
                /\ loads'[Len(loads')].week = currentWeek'
                /\ perfInFlight' = perfInFlight + 1]_vars

\* changeWeek has moved to its target week and started the reload
ChangeWeekWitness ==
    /\ Len(navs) > 0
    /\ navs[1].pc = "nav"
    /\ navs[1].newWeek = currentWeek
    /\ currentWeek \in availableWeeks
    /\ Len(loads) > 1

\* C17: when the updateSummary of a call of loadRecommendations renders, the
\* week number it writes into the titles is the week whose recommendations
\* that call fetched and aggregated, also when changeWeek has changed
\* currentWeek while the fetches of the call were in flight.
TitleWeekIsFetchedWeek ==
    [][\A i \in DOMAIN loads :
            (loads[i].pc = "fetchPerf" /\ loads'[i].rendered) =>
                /\ dom'.weekly = WeeklySummary(ServerRecs(loads[i].week))
                /\ dom'.weekTitle = loads[i].week]_vars

============================================================================
